---- MODULE Spec2Model ----
(***************************************************************************)
(* Model of cement's argparse controller extension                         *)
(* (cement/ext/ext_argparse.py) and of the hook registry exercised by      *)
(* cement2/tests/core/hook_tests.py.                                       *)
(*                                                                         *)
(* Controllers are identified by their Meta.label.  handler.list           *)
(* ('controller') is the sequence `handlers` (registration order, the base *)
(* class left out: _setup_controllers skips it).  Labels are only ever     *)
(* compared for equality, so the i-th registered controller is given the   *)
(* i-th name of LabelNames; every registration order of every stacking     *)
(* graph is one of the sequences the Register action builds.               *)
(***************************************************************************)
EXTENDS Integers, Sequences, FiniteSets, TLC

\* ------------------------------------------------------------------ bounds
\* controllers registered besides the base controller (graph resolution)
MaxControllers == 4

\* controllers registered besides the base controller (whole dispatch)
MaxDispatchControllers == 2

\* passes of the while loop of _setup_parsers that are followed
MaxPasses == 2

\* tokens of the argument vector
MaxArgv == 3

\* register calls on the hook registry
MaxSubscribers == 3

\* ------------------------------------------------------------- vocabulary
\* Strings are sequences of characters, so that re.sub can be computed on them.
LabelNames == << <<"c", "1">>, <<"c", "2">>, <<"c", "3">>, <<"c", "4">>,
                 <<"c", "5">>, <<"c", "6">> >>

\* Meta.label of the base controller
BaseLabel == <<"b", "a", "s", "e">>

\* Python's None (falsy, and equal to no label)
None == <<>>

\* the one option flag controllers and commands declare
Flag == <<"-", "f">>

\* a label that no registered controller has
Ghost == <<"g", "h", "o", "s", "t">>

StackedTypes == {"embedded", "nested"}

\* the hook names and the names of the callables hook_tests.py registers
HookNames == {"cement_test_hook", "some_bogus_hook"}

HookFuncNames == {"cement_hook_one", "cement_test_hook"}

\* the weights register() is given
HookWeights == {-1, 0, 99}

\* the labels the first n registered controllers carry
LabelsUpTo(n) == {LabelNames[i] : i \in 1..n}

VARIABLES
    pc,                \* position of the program
    handlers,          \* handler.list('controller') without the base class: Meta records
    base_stacked_on,   \* Meta.stacked_on of the base controller
    base_arguments,    \* Meta.arguments of the base controller
    resolved,          \* resolved_controllers (labels)
    unresolved,        \* unresolved_controllers (labels)
    current_parent,    \* current_parent
    current_children,  \* current_children of the running iteration
    controllers,       \* self._controllers
    sub_parsers,       \* self._sub_parsers: label -> parser object
    sub_parser_parents,\* self._sub_parser_parents: label -> sub-parser group object
    parser_objs,       \* the parser objects created so far
    groups,            \* the sub-parser groups created so far
    tmp_controllers,   \* tmp_controllers of _setup_parsers
    passes,            \* passes of the while loop of _setup_parsers made so far
    meta_controller,   \* __cement_meta__['controller'] of every exposed function
    proc_idx,          \* index of the controller the loop of line 573 is at
    cur_parser,        \* the parser that is consuming the argument vector
    argc,              \* tokens of the argument vector consumed so far
    extras,            \* TRUE when an unrecognized argument was met
    pargs,             \* the namespace being filled (app.pargs after the parse)
    invoked,           \* the functions called so far
    opt_command,       \* the command metadict _get_command_parser_options is given
    opt_kwargs,        \* what _get_command_parser_options returned
    hooks,             \* the hook registry: name -> subscriber list
    hook_defined,      \* the hook names define() was called for
    hook_calls,        \* the register calls made so far
    hook_out           \* the outcome of the last define, register or run

graphVars == <<resolved, unresolved, current_parent, current_children, controllers>>
parserVars == <<sub_parsers, sub_parser_parents, parser_objs, groups,
                tmp_controllers, passes>>
commandVars == <<meta_controller, proc_idx>>
parseVars == <<cur_parser, argc, extras, pargs, invoked>>

optVars == <<opt_command, opt_kwargs>>
hookVars == <<hooks, hook_defined, hook_calls, hook_out>>
dispatchVars == <<handlers, base_stacked_on, base_arguments, graphVars, parserVars, commandVars,
                  parseVars>>

vars == <<pc, dispatchVars, optVars, hookVars>>

\* ------------------------------------------------------------ helpers
SeqToSet(s) == {s[i] : i \in 1..Len(s)}

\* list.remove(x): drops the first occurrence
RECURSIVE ListRemove(_, _)
ListRemove(s, x) ==
    IF s = <<>> THEN <<>>
    ELSE IF Head(s) = x THEN Tail(s)
    ELSE <<Head(s)>> \o ListRemove(Tail(s), x)

\* the Meta of the registered controller labelled l
MetaOf(l) == CHOOSE m \in SeqToSet(handlers) : m.label = l

Registered == {handlers[i].label : i \in 1..Len(handlers)}

\* ------------------------------------------------- controller registration
\* handler.register of one more controller class
Register(limit, so, st, al, args, cargs, ext) ==
    /\ pc = "register"
    /\ Len(handlers) < limit
    /\ handlers' = Append(handlers,
                     [label |-> LabelNames[Len(handlers) + 1],
                      stacked_on |-> so, stacked_type |-> st,
                      aliases |-> al, arguments |-> args,
                      cmd_arguments |-> cargs, extends |-> ext])
    /\ UNCHANGED <<pc, base_stacked_on, base_arguments, graphVars, parserVars, commandVars,
                   parseVars>>
    /\ UNCHANGED <<optVars, hookVars>>

\* --------------------------------------------------- _setup_controllers
\* lines 270-289: collect the instances, seed the resolved list with self
SetupControllers ==
    /\ pc = "register"
    /\ pc' = "resolve"
    /\ resolved' = <<BaseLabel>>
    /\ unresolved' = [i \in 1..Len(handlers) |-> handlers[i].label]
    /\ current_parent' = BaseLabel
    /\ current_children' = <<>>
    /\ UNCHANGED <<handlers, base_stacked_on, base_arguments, controllers, parserVars, commandVars,
                   parseVars>>
    /\ UNCHANGED <<optVars, hookVars>>

\* ScanParent appending the nested controllers to the batch like the embedded
RECURSIVE ScanParentAppend(_, _, _, _, _)
ScanParentAppend(scan, parent, children, batch, unres) ==
    IF scan = <<>>
    THEN [children |-> children, batch |-> batch, unresolved |-> unres]
    ELSE LET contr == Head(scan) IN
         IF MetaOf(contr).stacked_on = parent
         THEN ScanParentAppend(Tail(scan), parent, Append(children, contr),
                               Append(batch, contr), ListRemove(unres, contr))
         ELSE ScanParentAppend(Tail(scan), parent, children, batch, unres)

\* lines 294-302: one pass over a copy of the unresolved list, taking the
\* controllers stacked on `parent`
RECURSIVE ScanParent(_, _, _, _, _)
ScanParent(scan, parent, children, batch, unres) ==
    IF scan = <<>>
    THEN [children |-> children, batch |-> batch, unresolved |-> unres]
    ELSE LET contr == Head(scan) IN
         IF MetaOf(contr).stacked_on = parent
         THEN ScanParent(Tail(scan), parent, Append(children, contr),
                         IF MetaOf(contr).stacked_type = "embedded"
                         THEN Append(batch, contr)
                         ELSE <<contr>> \o batch,
                         ListRemove(unres, contr))
         ELSE ScanParent(Tail(scan), parent, children, batch, unres)

\* ScanChild leaving the controllers it takes on the unresolved list
RECURSIVE ScanChildKeep(_, _, _, _)
ScanChildKeep(scan, child, batch, unres) ==
    IF scan = <<>>
    THEN [batch |-> batch, unresolved |-> unres]
    ELSE LET contr == Head(scan) IN
         IF MetaOf(contr).stacked_on = child
         THEN ScanChildKeep(Tail(scan), child,
                            IF MetaOf(contr).stacked_type = "embedded"
                            THEN Append(batch, contr)
                            ELSE <<contr>> \o batch,
                            unres)
         ELSE ScanChildKeep(Tail(scan), child, batch, unres)

\* lines 310-319: the inner loop for one child
RECURSIVE ScanChild(_, _, _, _)
ScanChild(scan, child, batch, unres) ==
    IF scan = <<>>
    THEN [batch |-> batch, unresolved |-> unres]
    ELSE LET contr == Head(scan) IN
         IF MetaOf(contr).stacked_on = child
         THEN ScanChild(Tail(scan), child,
                        IF MetaOf(contr).stacked_type = "embedded"
                        THEN Append(batch, contr)
                        ELSE <<contr>> \o batch,
                        ListRemove(unres, contr))
         ELSE ScanChild(Tail(scan), child, batch, unres)

\* lines 308-319: the loop over current_children
RECURSIVE ScanChildren(_, _, _)
ScanChildren(children, batch, unres) ==
    IF children = <<>>
    THEN [batch |-> batch, unresolved |-> unres]
    ELSE LET r == ScanChild(unres, Head(children), batch, unres)
         IN ScanChildren(Tail(children), r.batch, r.unresolved)

\* lines 290-304: the controllers stacked on the current parent
AfterParent(res, unres, parent) ==
    LET r == ScanParent(unres, parent, <<>>, <<>>, unres)
    IN [resolved |-> res \o r.batch, unresolved |-> r.unresolved,
        children |-> r.children]

\* lines 306-321: the controllers stacked on those children
AfterChildren(res, unres, children) ==
    LET r == ScanChildren(children, <<>>, unres)
    IN [resolved |-> res \o r.batch, unresolved |-> r.unresolved]

\* lines 324-325: the next parent
NextParent(unres, parent) ==
    IF unres # <<>> THEN unres[1] ELSE parent

ResolveParent ==
    /\ pc = "resolve"
    /\ unresolved # <<>>
    /\ LET r == AfterParent(resolved, unresolved, current_parent) IN
         /\ resolved' = r.resolved
         /\ unresolved' = r.unresolved
         /\ current_children' = r.children
    /\ pc' = "children"
    /\ UNCHANGED <<handlers, base_stacked_on, base_arguments, current_parent, controllers,
                   parserVars, commandVars, parseVars>>
    /\ UNCHANGED <<optVars, hookVars>>

ResolveChildren ==
    /\ pc = "children"
    /\ LET r == AfterChildren(resolved, unresolved, current_children) IN
         /\ resolved' = r.resolved
         /\ unresolved' = r.unresolved
    /\ pc' = "advance"
    /\ UNCHANGED <<handlers, base_stacked_on, base_arguments, current_parent, current_children,
                   controllers, parserVars, commandVars, parseVars>>
    /\ UNCHANGED <<optVars, hookVars>>

AdvanceParent ==
    /\ pc = "advance"
    /\ current_parent' = NextParent(unresolved, current_parent)
    /\ current_children' = <<>>
    /\ pc' = "resolve"
    /\ UNCHANGED <<handlers, base_stacked_on, base_arguments, resolved, unresolved, controllers,
                   parserVars, commandVars, parseVars>>
    /\ UNCHANGED <<optVars, hookVars>>

\* line 328
ResolveDone ==
    /\ pc = "resolve"
    /\ unresolved = <<>>
    /\ controllers' = resolved
    /\ pc' = "resolved"
    /\ UNCHANGED <<handlers, base_stacked_on, base_arguments, resolved, unresolved, current_parent,
                   current_children, parserVars, commandVars, parseVars>>
    /\ UNCHANGED <<optVars, hookVars>>

\* one whole iteration of the while loop of line 290
Iteration(res, unres, parent) ==
    LET a == AfterParent(res, unres, parent)
        b == AfterChildren(a.resolved, a.unresolved, a.children)
    IN <<b.resolved, b.unresolved, NextParent(b.unresolved, parent)>>



\* ------------------------------------------------------- exposed commands
\* re.sub('_', '-', label)
_clean_command_label(label) ==
    [i \in 1..Len(label) |-> IF label[i] = "_" THEN "-" ELSE label[i]]

\* re.sub('-', '_', func)
_clean_command_func(func) ==
    [i \in 1..Len(func) |-> IF func[i] = "-" THEN "_" ELSE func[i]]

\* Meta.default_func
DefaultFunc == <<"d", "e", "f", "a", "u", "l", "t">>

\* the command every controller class defines besides its default: cmd_<label>
CmdName(l) == <<"c", "m", "d", "_">> \o l

\* expose.__call__: the metadict of a function object
MetaDict(f) == [label |-> _clean_command_label(f[2]), func_name |-> f[2]]

\* the one alias a controller may declare: a<label>
AliasOf(l) == <<"a">> \o l

\* ------------------------------------------------------------ the Metas
BaseMeta == [label |-> BaseLabel, stacked_on |-> base_stacked_on,
             stacked_type |-> "embedded", aliases |-> <<>>,
             arguments |-> base_arguments, cmd_arguments |-> <<>>,
             extends |-> None]

MetaAll(l) == IF l = BaseLabel THEN BaseMeta ELSE MetaOf(l)

\* A function object is the pair of the class that defines it and its name.
\* A class defines cmd_<label>; it defines default unless it extends another
\* controller class, whose exposed functions it then inherits as they are.
RECURSIVE Exposed(_)
Exposed(l) ==
    {<<l, CmdName(l)>>}
      \cup (IF MetaAll(l).extends = None THEN {<<l, DefaultFunc>>}
            ELSE Exposed(MetaAll(l).extends))

\* the place of a member name in the sorted list dir() returns
NameRank(name) ==
    IF name = DefaultFunc THEN Len(LabelNames) + 1
    ELSE IF name = CmdName(BaseLabel) THEN 0
    ELSE CHOOSE i \in 1..Len(LabelNames) : name = CmdName(LabelNames[i])

RECURSIVE InDirOrder(_)
InDirOrder(fs) ==
    IF fs = {} THEN <<>>
    ELSE LET f == CHOOSE x \in fs : \A y \in fs : NameRank(x[2]) <= NameRank(y[2])
         IN <<f>> \o InDirOrder(fs \ {f})

\* the exposed functions of the class labelled l, in dir() order
Catalog(l) == InDirOrder(Exposed(l))

\* getattr(instance of class l, name) finds a function
HasFunc(l, name) == \E i \in 1..Len(Catalog(l)) : Catalog(l)[i][2] = name

EmptyFn == [x \in {} |-> None]

\* d[k] = v on a dict
DictSet(d, k, v) == [x \in DOMAIN d \cup {k} |-> IF x = k THEN v ELSE d[x]]

\* ------------------------------------------------ the parser collaborator
\* group.add_parser(name, aliases=als): a new parser object, entered in the
\* group's name map under its name and its aliases (a later entry of the same
\* name replaces the earlier one)
AddParser(st, g, name, als, kind, owner, cmd) ==
    LET np == Len(st.objs) + 1
        entries == << <<name, np>> >> \o [i \in 1..Len(als) |-> <<als[i], np>>]
    IN [st EXCEPT
          !.objs = Append(@, [kind |-> kind, name |-> name, owner |-> owner,
                              group |-> 0, command |-> cmd, flags |-> <<>>]),
          !.groups[g].names = @ \o entries]

\* parser.add_subparsers(dest='command'): a new group object on parser p
AddSubparsers(st, p) ==
    [st EXCEPT !.groups = Append(@, [parser |-> p, names |-> <<>>]),
               !.objs[p].group = Len(st.groups) + 1]

\* the parser a group's name map gives for a token, 0 when it has none
LookupName(g, t) ==
    LET idx == {i \in 1..Len(groups[g].names) : groups[g].names[i][1] = t}
    IN IF idx = {} THEN 0
       ELSE groups[g].names[CHOOSE i \in idx : \A j \in idx : j <= i][2]

\* --------------------------------------------------------- _setup_parsers
\* SetupOne with the embedded branch taking the base controller's parser and
\* group whatever the controller is stacked on
SetupOneOnBase(label, st) ==
    LET m == MetaAll(label) IN
    IF m.stacked_on \notin DOMAIN st.parents THEN st
    ELSE LET made ==
               IF m.stacked_type = "nested"
               THEN LET a == AddParser(st, st.parents[m.stacked_on], label,
                                       m.aliases, "controller", label, None)
                        np == Len(a.objs)
                        b == AddSubparsers(a, np)
                    IN [b EXCEPT !.parsers = DictSet(@, label, np),
                                 !.parents = DictSet(@, label, Len(b.groups))]
               ELSE IF m.stacked_type = "embedded"
               THEN [st EXCEPT
                       !.parents = DictSet(@, label, st.parents[BaseLabel]),
                       !.parsers = DictSet(@, label, st.parsers[BaseLabel])]
               ELSE st
         IN [made EXCEPT !.tmp = ListRemove(@, label)]

\* SetupOne taking a controller off the pending list although the controller
\* it is stacked on has no parser yet
SetupOneNoWait(label, st) ==
    LET m == MetaAll(label) IN
    IF m.stacked_on \notin DOMAIN st.parents
    THEN [st EXCEPT !.tmp = ListRemove(@, label)]
    ELSE LET made ==
               IF m.stacked_type = "nested"
               THEN LET a == AddParser(st, st.parents[m.stacked_on], label,
                                       m.aliases, "controller", label, None)
                        np == Len(a.objs)
                        b == AddSubparsers(a, np)
                    IN [b EXCEPT !.parsers = DictSet(@, label, np),
                                 !.parents = DictSet(@, label, Len(b.groups))]
               ELSE IF m.stacked_type = "embedded"
               THEN [st EXCEPT
                       !.parents = DictSet(@, label, st.parents[m.stacked_on]),
                       !.parsers = DictSet(@, label, st.parsers[m.stacked_on])]
               ELSE st
         IN [made EXCEPT !.tmp = ListRemove(@, label)]

\* lines 417-449: the body of the for loop for one controller
SetupOne(label, st) ==
    LET m == MetaAll(label) IN
    IF m.stacked_on \notin DOMAIN st.parents THEN st
    ELSE LET made ==
               IF m.stacked_type = "nested"
               THEN LET a == AddParser(st, st.parents[m.stacked_on], label,
                                       m.aliases, "controller", label, None)
                        np == Len(a.objs)
                        b == AddSubparsers(a, np)
                    IN [b EXCEPT !.parsers = DictSet(@, label, np),
                                 !.parents = DictSet(@, label, Len(b.groups))]
               ELSE IF m.stacked_type = "embedded"
               THEN [st EXCEPT
                       !.parents = DictSet(@, label, st.parents[m.stacked_on]),
                       !.parsers = DictSet(@, label, st.parsers[m.stacked_on])]
               ELSE st
         IN [made EXCEPT !.tmp = ListRemove(@, label)]

\* line 416: one pass of the for loop over self._controllers
RECURSIVE ForControllers(_, _)
ForControllers(cs, st) ==
    IF cs = <<>> THEN st ELSE ForControllers(Tail(cs), SetupOne(Head(cs), st))

ParserState == [parsers |-> sub_parsers, parents |-> sub_parser_parents,
                objs |-> parser_objs, groups |-> groups, tmp |-> tmp_controllers]

\* lines 384-413: the base controller's parser and group, the early return
SetupParsers ==
    /\ pc = "resolved"
    /\ sub_parsers' = DictSet(sub_parsers, BaseLabel, 1)
    /\ parser_objs' = << [kind |-> "root", name |-> None, owner |-> BaseLabel,
                          group |-> 1, command |-> None, flags |-> <<>>] >>
    /\ groups' = << [parser |-> 1, names |-> <<>>] >>
    /\ sub_parser_parents' = DictSet(sub_parser_parents, BaseLabel, 1)
    /\ IF Len(handlers) + 1 <= 1
       THEN pc' = "process" /\ tmp_controllers' = <<>>
       ELSE pc' = "parsers" /\ tmp_controllers' = controllers
    /\ UNCHANGED <<handlers, base_stacked_on, base_arguments, graphVars, passes, commandVars,
                   parseVars>>
    /\ UNCHANGED <<optVars, hookVars>>

\* lines 415-449: one pass of the while loop
ParserPass ==
    /\ pc = "parsers"
    /\ tmp_controllers # <<>>
    /\ passes < MaxPasses
    /\ LET st == ForControllers(controllers, ParserState) IN
         /\ sub_parsers' = st.parsers
         /\ sub_parser_parents' = st.parents
         /\ parser_objs' = st.objs
         /\ groups' = st.groups
         /\ tmp_controllers' = st.tmp
    /\ passes' = passes + 1
    /\ UNCHANGED <<pc, handlers, base_stacked_on, base_arguments, graphVars, commandVars, parseVars>>
    /\ UNCHANGED <<optVars, hookVars>>

\* line 415: the while loop ends
ParsersDone ==
    /\ pc = "parsers"
    /\ tmp_controllers = <<>>
    /\ pc' = "process"
    /\ UNCHANGED <<handlers, base_stacked_on, base_arguments, graphVars, parserVars, commandVars,
                   parseVars>>
    /\ UNCHANGED <<optVars, hookVars>>

\* ----------------------------------- _process_arguments, _process_commands
\* lines 451-471: the key _get_parser_by_controller and
\* _get_parser_parent_by_controller look up
ParserKey(m) ==
    IF m.stacked_on # None
    THEN IF m.stacked_type = "embedded" THEN m.stacked_on ELSE m.label
    ELSE m.label

\* lines 552-566: _collect_commands sets the back-reference of every metadict
CollectCommands(mc, label) ==
    LET fs == {Catalog(label)[i] : i \in 1..Len(Catalog(label))}
    IN [f \in DOMAIN mc \cup fs |-> IF f \in fs THEN label ELSE mc[f]]

\* parser.add_argument(flag): a parser refuses a flag it already has
\* (argparse.ArgumentError), otherwise the flag is declared on it
AddArgument(st, p, flag) ==
    IF flag \in SeqToSet(st.objs[p].flags)
    THEN [ok |-> FALSE, st |-> st]
    ELSE [ok |-> TRUE, st |-> [st EXCEPT !.objs[p].flags = Append(@, flag)]]

\* AddArguments going on with the next argument when the parser refuses one
RECURSIVE AddArgumentsSkipRejected(_, _, _)
AddArgumentsSkipRejected(args, st, p) ==
    IF args = <<>> THEN [ok |-> TRUE, st |-> st]
    ELSE AddArgumentsSkipRejected(Tail(args), AddArgument(st, p, Head(args)).st, p)

\* lines 487-493 and 533-539: the arguments are added one by one; the first
\* one the parser refuses raises FrameworkError
RECURSIVE AddArguments(_, _, _)
AddArguments(args, st, p) ==
    IF args = <<>> THEN [ok |-> TRUE, st |-> st]
    ELSE LET r == AddArgument(st, p, Head(args))
         IN IF r.ok THEN AddArguments(Tail(args), r.st, p) ELSE r

\* command['arguments'] of a function object: those expose() was given
CommandArguments(f) ==
    IF f[2] = CmdName(f[1]) THEN MetaAll(f[1]).cmd_arguments ELSE <<>>

\* lines 502-539: one sub-parser per command under the controller's group,
\* with the command's arguments; the closure of CustomAction reads the variable
\* `command` when it is called, that is the last command of this loop
RECURSIVE AddCommands(_, _, _, _, _)
AddCommands(cmds, r, g, label, last) ==
    IF cmds = <<>> \/ ~r.ok THEN r
    ELSE LET a == AddParser(r.st, g, MetaDict(Head(cmds)).label, <<>>,
                            "command", label, last)
         IN AddCommands(Tail(cmds),
                        AddArguments(CommandArguments(Head(cmds)), a, Len(a.objs)),
                        g, label, last)

\* lines 573-575 for one controller: _process_arguments, then
\* _process_commands
ProcessController ==
    /\ pc = "process"
    /\ proc_idx <= Len(controllers)
    /\ LET label == controllers[proc_idx]
           key == ParserKey(MetaAll(label))
           cmds == Catalog(label)
       IN IF key \notin DOMAIN sub_parsers \/ key \notin DOMAIN sub_parser_parents
          THEN \* KeyError of _get_parser / _get_parser_parent
               /\ pc' = "setup_failed"
               /\ UNCHANGED <<parserVars, commandVars>>
          ELSE LET a == AddArguments(MetaAll(label).arguments, ParserState,
                                    sub_parsers[key])
                   c == IF a.ok
                        THEN AddCommands(cmds, a, sub_parser_parents[key],
                                         label, cmds[Len(cmds)])
                        ELSE a
               IN /\ parser_objs' = c.st.objs
                  /\ groups' = c.st.groups
                  /\ meta_controller' = IF a.ok
                                        THEN CollectCommands(meta_controller, label)
                                        ELSE meta_controller
                  /\ proc_idx' = IF c.ok THEN proc_idx + 1 ELSE proc_idx
                  /\ pc' = IF c.ok THEN pc ELSE "config_error"
                  /\ UNCHANGED <<sub_parsers, sub_parser_parents,
                                 tmp_controllers, passes>>
    /\ UNCHANGED <<handlers, base_stacked_on, base_arguments, graphVars, parseVars>>
    /\ UNCHANGED <<optVars, hookVars>>

\* ------------------------------------------------------ app._parse_args()
\* The argument vector is fed to the parser token by token.  The namespace is
\* one object shared by the root parser and every sub-parser it hands the rest
\* of the vector to: CustomAction reads namespace.command, which the sub-parser
\* group of the level above has set.  Sub-parser groups are optional, a
\* positional with nargs='?' that meets no value calls its action with None,
\* and unrecognized arguments are reported when the vector ends.
IsOption(t) == t # <<>> /\ t[1] = "-"

\* lines 516-521: CustomAction.__call__ on namespace ns with the given values,
\* for the command parser p
CustomAction(p, ns, values) ==
    LET func_name == _clean_command_func(ns.command)
        contr == meta_controller[parser_objs[p].command]
    IN IF HasFunc(contr, func_name)
       THEN [ok |-> TRUE,
             call |-> [controller |-> contr, func |-> func_name, by |-> "marker"],
             ns |-> [ns EXCEPT !.marker_value = values, !.marker_called = TRUE]]
       ELSE [ok |-> FALSE, call |-> None, ns |-> ns]

\* line 577: parsing starts at the root parser with an empty namespace
ParseStart ==
    /\ pc = "process"
    /\ proc_idx > Len(controllers)
    /\ pc' = "parsing"
    /\ cur_parser' = sub_parsers[BaseLabel]
    /\ argc' = 0
    /\ UNCHANGED <<handlers, base_stacked_on, base_arguments, graphVars, parserVars, commandVars,
                   extras, pargs, invoked>>
    /\ UNCHANGED <<optVars, hookVars>>

\* the parser consumes the next token t of the argument vector
ParseToken(t) ==
    /\ pc = "parsing"
    /\ argc < MaxArgv
    /\ argc' = argc + 1
    /\ LET p == parser_objs[cur_parser] IN
       IF IsOption(t)
       THEN \* the vector holds no declared flag: an unrecognized argument,
            \* reported at the end
            /\ extras' = TRUE
            /\ UNCHANGED <<pc, cur_parser, pargs, invoked>>
       ELSE IF p.kind = "command"
       THEN IF pargs.marker_called
            THEN /\ extras' = TRUE
                 /\ UNCHANGED <<pc, cur_parser, pargs, invoked>>
            ELSE LET r == CustomAction(cur_parser, pargs, t) IN
                 /\ pargs' = r.ns
                 /\ pc' = IF r.ok THEN pc ELSE "parse_failed"
                 /\ invoked' = IF r.ok THEN Append(invoked, r.call) ELSE invoked
                 /\ UNCHANGED <<cur_parser, extras>>
       ELSE LET np == LookupName(p.group, t) IN
            IF np = 0
            THEN \* invalid choice: the parser exits
                 /\ pc' = "parse_failed"
                 /\ UNCHANGED <<cur_parser, extras, pargs, invoked>>
            ELSE /\ cur_parser' = np
                 /\ pargs' = [pargs EXCEPT
                                !.command = t,
                                !.has_marker = @ \/ parser_objs[np].kind = "command"]
                 /\ UNCHANGED <<pc, extras, invoked>>
    /\ UNCHANGED <<handlers, base_stacked_on, base_arguments, graphVars, parserVars, commandVars>>
    /\ UNCHANGED <<optVars, hookVars>>

\* the argument vector ends: a command parser whose marker took no value calls
\* its action with the default, then unrecognized arguments are an error
ParseEnd ==
    /\ pc = "parsing"
    /\ LET p == parser_objs[cur_parser]
           pending == p.kind = "command" /\ ~pargs.marker_called
           r == IF pending THEN CustomAction(cur_parser, pargs, None)
                ELSE [ok |-> TRUE, call |-> None, ns |-> pargs]
       IN /\ pargs' = r.ns
          /\ invoked' = IF pending /\ r.ok THEN Append(invoked, r.call) ELSE invoked
          /\ pc' = IF r.ok /\ ~extras THEN "routing" ELSE "parse_failed"
    /\ UNCHANGED <<handlers, base_stacked_on, base_arguments, graphVars, parserVars, commandVars,
                   cur_parser, argc, extras>>
    /\ UNCHANGED <<optVars, hookVars>>

\* --------------------------------------------------- _dispatch, routing
\* handler.get('controller', label) finds a registered controller class
HandlerDefined(label) == label = BaseLabel \/ label \in Registered

\* RouteTarget taking, for no sub-command, the controller the loop of line 573
\* ended on instead of self
RouteTargetLoopVariable(ns) ==
    IF ns.command = None THEN controllers[Len(controllers)] ELSE ns.command

\* RouteTarget calling the default function of self whatever was parsed
RouteTargetSelf(ns) == BaseLabel

\* lines 580-588: the controller whose default function routing calls
RouteTarget(ns) == IF ns.command = None THEN BaseLabel ELSE ns.command

\* lines 579-592
Route ==
    /\ pc = "routing"
    /\ IF ~pargs.has_marker
       THEN LET contr == RouteTarget(pargs)
                func_name == _clean_command_func(DefaultFunc)
            IN IF HandlerDefined(contr) /\ HasFunc(contr, func_name)
               THEN /\ invoked' = Append(invoked, [controller |-> contr,
                                          func |-> func_name, by |-> "routing"])
                    /\ pc' = "invoked"
               ELSE \* handler.get or getattr raises
                    /\ pc' = "route_failed"
                    /\ UNCHANGED invoked
       ELSE pc' = "invoked" /\ UNCHANGED invoked
    /\ UNCHANGED <<handlers, base_stacked_on, base_arguments, graphVars, parserVars, commandVars,
                   cur_parser, argc, extras, pargs>>
    /\ UNCHANGED <<optVars, hookVars>>

\* -------------------------------------------- _get_command_parser_options
\* del d[k]
DictDel(d, k) == [x \in DOMAIN d \ {k} |-> d[x]]

\* _get_command_parser_options hiding the commands of every hidden controller,
\* nested ones too
get_command_parser_options_any_type(command) ==
    LET kwargs == command.parser_options
        contr == command.controller
        hide_it == IF command.hide = TRUE THEN TRUE
                   ELSE IF contr.hide = TRUE THEN TRUE ELSE FALSE
    IN IF hide_it = TRUE
       THEN IF "help" \in DOMAIN kwargs THEN DictDel(kwargs, "help") ELSE kwargs
       ELSE kwargs

\* lines 363-382; command.controller is the Meta of the owning controller
_get_command_parser_options(command) ==
    LET kwargs == command.parser_options
        contr == command.controller
        hide_it == IF command.hide = TRUE THEN TRUE
                   ELSE IF contr.stacked_type = "embedded" /\ contr.hide = TRUE
                        THEN TRUE
                        ELSE FALSE
    IN IF hide_it = TRUE
       THEN IF "help" \in DOMAIN kwargs THEN DictDel(kwargs, "help") ELSE kwargs
       ELSE kwargs

\* line 505: _process_commands asks for the options of one command
GetCommandParserOptions ==
    /\ pc = "options"
    /\ opt_kwargs = <<>>
    /\ opt_kwargs' = <<_get_command_parser_options(opt_command)>>
    /\ UNCHANGED <<pc, dispatchVars, opt_command, hookVars>>

\* the keyword options expose() is given and the values they take
OptionValues(k) ==
    IF k = "help" THEN {"list the things", "run it"}
    ELSE IF k = "description" THEN {"a description"}
    ELSE {"prog cmd [options]"}

ParserOptions ==
    LET keys == {"help", "description", "usage"}
        all == UNION {[ks -> UNION {OptionValues(k) : k \in keys}] : ks \in SUBSET keys}
    IN {d \in all : \A k \in DOMAIN d : d[k] \in OptionValues(k)}

\* the metadicts of expose.__call__ (lines 108-118) with the back-reference set
OptCommands ==
    {[hide |-> h, parser_options |-> po,
      controller |-> [stacked_type |-> st, hide |-> ch]] :
        h \in BOOLEAN, po \in ParserOptions, st \in StackedTypes, ch \in BOOLEAN}

\* ----------------------------------------------------- the hook registry
\* cement2.core.hook is exercised by cement2/tests/core/hook_tests.py

\* the keyword arguments of a register() call: name and weight, each optional
RegisterKwargs ==
    {[k \in {} |-> 0]}
      \cup {[name |-> n] : n \in HookNames}
      \cup {[weight |-> w] : w \in HookWeights}
      \cup {[name |-> n, weight |-> w] : n \in HookNames, w \in HookWeights}

\* the hook a register call targets: the callable's name when none is given
HookTarget(kw, func_name) == IF "name" \in DOMAIN kw THEN kw.name ELSE func_name

\* register(name, weight=0)
HookWeight(kw) == IF "weight" \in DOMAIN kw THEN kw.weight ELSE 0

\* InsertByWeight putting an entry before the entries of its own weight
RECURSIVE InsertBeforeEqual(_, _)
InsertBeforeEqual(sorted, e) ==
    IF sorted = <<>> THEN <<e>>
    ELSE IF Head(sorted).weight < e.weight
         THEN <<Head(sorted)>> \o InsertBeforeEqual(Tail(sorted), e)
         ELSE <<e>> \o sorted

\* stable sort by ascending weight
RECURSIVE InsertByWeight(_, _)
InsertByWeight(sorted, e) ==
    IF sorted = <<>> THEN <<e>>
    ELSE IF Head(sorted).weight <= e.weight
         THEN <<Head(sorted)>> \o InsertByWeight(Tail(sorted), e)
         ELSE <<e>> \o sorted

RECURSIVE SortByWeight(_)
SortByWeight(es) ==
    IF es = <<>> THEN <<>>
    ELSE InsertByWeight(SortByWeight(SubSeq(es, 1, Len(es) - 1)), es[Len(es)])

\* run(name): the return values in execution order; a subscriber returns its id
HookResults(es) == [i \in 1..Len(es) |-> SortByWeight(es)[i].id]

\* HookDefine accepting a second definition of a name without complaint
HookDefineIdempotent(name) ==
    /\ pc = "hooks"
    /\ hook_defined' = hook_defined \cup {name}
    /\ hooks' = IF name \in DOMAIN hooks THEN hooks ELSE DictSet(hooks, name, <<>>)
    /\ hook_out' = [op |-> "define", name |-> name, status |-> "ok",
                    results |-> <<>>]
    /\ UNCHANGED <<pc, dispatchVars, optVars, hook_calls>>

\* HookDefine giving the name a fresh, empty subscriber list
HookDefineFreshList(name) ==
    /\ pc = "hooks"
    /\ IF name \in hook_defined
       THEN /\ hook_out' = [op |-> "define", name |-> name, status |-> "error",
                            results |-> <<>>]
            /\ UNCHANGED <<hooks, hook_defined>>
       ELSE /\ hook_defined' = hook_defined \cup {name}
            /\ hooks' = DictSet(hooks, name, <<>>)
            /\ hook_out' = [op |-> "define", name |-> name, status |-> "ok",
                            results |-> <<>>]
    /\ UNCHANGED <<pc, dispatchVars, optVars, hook_calls>>

\* hook.define(name)
HookDefine(name) ==
    /\ pc = "hooks"
    /\ IF name \in hook_defined
       THEN /\ hook_out' = [op |-> "define", name |-> name, status |-> "error",
                            results |-> <<>>]
            /\ UNCHANGED <<hooks, hook_defined>>
       ELSE /\ hook_defined' = hook_defined \cup {name}
            /\ hooks' = IF name \in DOMAIN hooks THEN hooks
                        ELSE DictSet(hooks, name, <<>>)
            /\ hook_out' = [op |-> "define", name |-> name, status |-> "ok",
                            results |-> <<>>]
    /\ UNCHANGED <<pc, dispatchVars, optVars, hook_calls>>

\* HookRegister dropping the callable when the name has no subscriber list yet
HookRegisterKnownOnly(kw, func_name) ==
    /\ pc = "hooks"
    /\ Len(hook_calls) < MaxSubscribers
    /\ LET target == HookTarget(kw, func_name)
           id == Len(hook_calls) + 1
       IN /\ hooks' = IF target \in DOMAIN hooks
                      THEN DictSet(hooks, target,
                                   Append(hooks[target],
                                          [id |-> id, weight |-> HookWeight(kw)]))
                      ELSE hooks
          /\ hook_calls' = Append(hook_calls,
                                  [kw |-> kw, func |-> func_name, id |-> id])
          /\ hook_out' = [op |-> "register", name |-> target, status |-> "ok",
                          results |-> <<>>]
    /\ UNCHANGED <<pc, dispatchVars, optVars, hook_defined>>

\* @hook.register(**kw) applied to the callable named func_name
HookRegister(kw, func_name) ==
    /\ pc = "hooks"
    /\ Len(hook_calls) < MaxSubscribers
    /\ LET target == HookTarget(kw, func_name)
           id == Len(hook_calls) + 1
           old == IF target \in DOMAIN hooks THEN hooks[target] ELSE <<>>
       IN /\ hooks' = DictSet(hooks, target,
                              Append(old, [id |-> id, weight |-> HookWeight(kw)]))
          /\ hook_calls' = Append(hook_calls,
                                  [kw |-> kw, func |-> func_name, id |-> id])
          /\ hook_out' = [op |-> "register", name |-> target, status |-> "ok",
                          results |-> <<>>]
    /\ UNCHANGED <<pc, dispatchVars, optVars, hook_defined>>

\* HookRun failing only for a name that has no subscriber list at all
HookRunAnyList(name) ==
    /\ pc = "hooks"
    /\ hook_out' = IF name \notin DOMAIN hooks
                   THEN [op |-> "run", name |-> name, status |-> "error",
                         results |-> <<>>]
                   ELSE [op |-> "run", name |-> name, status |-> "ok",
                         results |-> HookResults(hooks[name])]
    /\ UNCHANGED <<pc, dispatchVars, optVars, hooks, hook_defined, hook_calls>>

\* for res in hook.run(name), consumed to the end; test_run_bad_hook: a name
\* that was registered on but never defined is an error
HookRun(name) ==
    /\ pc = "hooks"
    /\ hook_out' = IF name \notin hook_defined
                   THEN [op |-> "run", name |-> name, status |-> "error",
                         results |-> <<>>]
                   ELSE [op |-> "run", name |-> name, status |-> "ok",
                         results |-> HookResults(hooks[name])]
    /\ UNCHANGED <<pc, dispatchVars, optVars, hooks, hook_defined, hook_calls>>

\* ------------------------------------------------------- specifications
StackTargets(limit) == {BaseLabel, Ghost} \cup LabelsUpTo(limit)

Blank ==
    /\ handlers = <<>>
    /\ resolved = <<>>
    /\ unresolved = <<>>
    /\ current_parent = None
    /\ current_children = <<>>
    /\ controllers = <<>>
    /\ sub_parsers = EmptyFn
    /\ sub_parser_parents = EmptyFn
    /\ parser_objs = <<>>
    /\ groups = <<>>
    /\ tmp_controllers = <<>>
    /\ passes = 0
    /\ meta_controller = EmptyFn
    /\ proc_idx = 1
    /\ cur_parser = 0
    /\ argc = 0
    /\ extras = FALSE
    /\ pargs = [command |-> None, has_marker |-> FALSE, marker_called |-> FALSE,
                marker_value |-> None]
    /\ invoked = <<>>

OptBlank ==
    /\ opt_command = [hide |-> FALSE, parser_options |-> EmptyFn,
                      controller |-> [stacked_type |-> "embedded", hide |-> FALSE]]
    /\ opt_kwargs = <<>>

HookBlank ==
    /\ hooks = EmptyFn
    /\ hook_defined = {}
    /\ hook_calls = <<>>
    /\ hook_out = [op |-> "none", name |-> "", status |-> "ok", results |-> <<>>]

\* controller resolution alone, over every stacking graph
RegisterGraph ==
    \E so \in StackTargets(MaxControllers), st \in StackedTypes :
        Register(MaxControllers, so, st, <<>>, <<>>, <<>>, None)

InitGraph ==
    /\ pc = "register"
    /\ Blank /\ OptBlank /\ HookBlank
    /\ base_stacked_on = BaseLabel
    /\ base_arguments = <<>>

NextGraph ==
    \/ RegisterGraph
    \/ SetupControllers
    \/ ResolveParent
    \/ ResolveChildren
    \/ AdvanceParent
    \/ ResolveDone

SpecGraph == InitGraph /\ [][NextGraph]_vars

\* a whole dispatch
RegisterController ==
    \E so \in StackTargets(MaxDispatchControllers), st \in StackedTypes :
        \E al \in IF st = "nested"
                  THEN {<<>>, <<AliasOf(LabelNames[Len(handlers) + 1])>>}
                  ELSE {<<>>} :
            Register(MaxDispatchControllers, so, st, al, <<>>, <<>>, None)

\* the tokens an argument vector is made of
Tokens ==
    LET ls == Registered \cup {BaseLabel} IN
    ls \cup {AliasOf(l) : l \in Registered}
       \cup {_clean_command_label(CmdName(l)) : l \in ls}
       \cup {_clean_command_label(DefaultFunc), <<"-", "-", "x">>, <<"z">>}

Parse == \E t \in Tokens : ParseToken(t)

Init ==
    /\ pc = "register"
    /\ Blank /\ OptBlank /\ HookBlank
    /\ base_stacked_on \in {BaseLabel, None}
    /\ base_arguments = <<>>

Next ==
    \/ RegisterController
    \/ SetupControllers
    \/ ResolveParent
    \/ ResolveChildren
    \/ AdvanceParent
    \/ ResolveDone
    \/ SetupParsers
    \/ ParserPass
    \/ ParsersDone
    \/ ProcessController
    \/ ParseStart
    \/ Parse
    \/ ParseEnd
    \/ Route

Spec == Init /\ [][Next]_vars

\* a dispatch of the empty argument vector by controllers and commands that
\* declare arguments
ArgumentLists == {<<>>, <<Flag>>}

CommandArgumentLists == {<<>>, <<Flag>>, <<Flag, Flag>>}

\* (a controller stacked on a label nobody has never leaves resolution)
RegisterWithArguments ==
    \E so \in StackTargets(MaxDispatchControllers) \ {Ghost}, st \in StackedTypes :
        \E args \in ArgumentLists, cargs \in CommandArgumentLists :
            Register(MaxDispatchControllers, so, st, <<>>, args, cargs, None)

InitArguments ==
    /\ pc = "register"
    /\ Blank /\ OptBlank /\ HookBlank
    /\ base_stacked_on \in {BaseLabel, None}
    /\ base_arguments \in ArgumentLists

NextArguments ==
    \/ RegisterWithArguments
    \/ SetupControllers
    \/ ResolveParent
    \/ ResolveChildren
    \/ AdvanceParent
    \/ ResolveDone
    \/ SetupParsers
    \/ ParserPass
    \/ ParsersDone
    \/ ProcessController
    \/ ParseStart
    \/ ParseEnd
    \/ Route

SpecArguments == InitArguments /\ [][NextArguments]_vars

\* a dispatch by controller classes that extend one another
RegisterSubclass ==
    \E so \in StackTargets(MaxDispatchControllers) \ {Ghost}, st \in StackedTypes :
        \E ext \in {None, BaseLabel} \cup Registered :
            Register(MaxDispatchControllers, so, st, <<>>, <<>>, <<>>, ext)

\* the tokens that select a controller or a command
CommandTokens ==
    LET ls == Registered \cup {BaseLabel} IN
    Registered \cup {_clean_command_label(CmdName(l)) : l \in ls}
               \cup {_clean_command_label(DefaultFunc)}

ParseCommand == \E t \in CommandTokens : ParseToken(t)

InitInherit ==
    /\ pc = "register"
    /\ Blank /\ OptBlank /\ HookBlank
    /\ base_stacked_on = BaseLabel
    /\ base_arguments = <<>>

NextInherit ==
    \/ RegisterSubclass
    \/ SetupControllers
    \/ ResolveParent
    \/ ResolveChildren
    \/ AdvanceParent
    \/ ResolveDone
    \/ SetupParsers
    \/ ParserPass
    \/ ParsersDone
    \/ ProcessController
    \/ ParseStart
    \/ ParseCommand
    \/ ParseEnd
    \/ Route

SpecInherit == InitInherit /\ [][NextInherit]_vars

\* the options of one command's sub-parser, over every metadict
InitOptions ==
    /\ pc = "options"
    /\ Blank /\ HookBlank
    /\ base_stacked_on = BaseLabel
    /\ base_arguments = <<>>
    /\ opt_command \in OptCommands
    /\ opt_kwargs = <<>>

NextOptions == GetCommandParserOptions

SpecOptions == InitOptions /\ [][NextOptions]_vars

\* the hook registry under any sequence of define, register and run
Define == \E name \in HookNames : HookDefine(name)

\* the callable's name decides nothing when the call names the hook
RegisterHook ==
    \E kw \in RegisterKwargs :
        \E f \in IF "name" \in DOMAIN kw THEN {"cement_hook_one"} ELSE HookFuncNames :
            HookRegister(kw, f)

Run == \E name \in HookNames : HookRun(name)

InitHook ==
    /\ pc = "hooks"
    /\ Blank /\ OptBlank /\ HookBlank
    /\ base_stacked_on = BaseLabel
    /\ base_arguments = <<>>

NextHook == Define \/ RegisterHook \/ Run

SpecHook == InitHook /\ [][NextHook]_vars

\* ================================================================ claims
\* ------------------------------------------------------------ vocabulary
\* following stacked_on from label l reaches the base controller within
\* `fuel` steps
RECURSIVE ChainReachesBase(_, _)
ChainReachesBase(l, fuel) ==
    IF l = BaseLabel THEN TRUE
    ELSE IF fuel = 0 \/ l \notin Registered THEN FALSE
    ELSE ChainReachesBase(MetaOf(l).stacked_on, fuel - 1)

\* every registered controller's stacked_on chain reaches the root
WellFormed == \A l \in Registered : ChainReachesBase(l, Len(handlers))

\* following stacked_on from label l comes back to `target`
RECURSIVE ChainReturns(_, _, _)
ChainReturns(l, target, fuel) ==
    IF l \notin Registered \/ fuel = 0 THEN FALSE
    ELSE IF MetaOf(l).stacked_on = target THEN TRUE
    ELSE ChainReturns(MetaOf(l).stacked_on, target, fuel - 1)

\* the registered controllers that lie on a stacked_on cycle
OnCycle == {l \in Registered : ChainReturns(l, l, Len(handlers))}

\* some registered controller is stacked on a label nobody has
HasOrphan ==
    \E l \in Registered : MetaOf(l).stacked_on \notin Registered \cup {BaseLabel}

\* the configuration of the claim's example: a cycle through two or more
\* controllers, every other controller reaching the root
CyclicSetup ==
    /\ OnCycle # {}
    /\ \A l \in Registered :
          /\ l \in OnCycle \/ ChainReachesBase(l, Len(handlers))
          /\ MetaOf(l).stacked_on # l

\* every controller of the resolved list comes after the one it is stacked on
StackedOnComesFirst ==
    \A i \in 1..Len(resolved) :
        resolved[i] # BaseLabel =>
            \E j \in 1..(i - 1) : resolved[j] = MetaOf(resolved[i]).stacked_on

\* The while loop of line 290 is deterministic: a state that one whole iteration
\* maps to itself, with unresolved controllers left, is never left again.
Diverges ==
    /\ pc = "resolve"
    /\ unresolved # <<>>
    /\ Iteration(resolved, unresolved, current_parent)
         = <<resolved, unresolved, current_parent>>

\* The while loop of line 415 likewise: a pass that removes nothing from
\* tmp_controllers and adds no key to the parents leaves every later pass the
\* same choices.
ParsersDiverge ==
    /\ pc = "parsers"
    /\ tmp_controllers # <<>>
    /\ LET st == ForControllers(controllers, ParserState) IN
         /\ st.tmp = tmp_controllers
         /\ DOMAIN st.parents = DOMAIN sub_parser_parents

\* _setup_controllers has returned
ResolutionReturned == pc \notin {"register", "resolve", "children", "advance"}

\* C1: in every state of controller resolution over a well-formed set of
\* controllers, each controller of the resolved list is preceded there by the
\* controller it is stacked on.
C1_StackedOnResolvedFirst == WellFormed => StackedOnComesFirst

\* C2: controller resolution over a well-formed set of controllers never
\* reaches a state its loop cannot leave (it terminates).
C2_ResolutionTerminates == WellFormed => ~Diverges

\* C3: with a controller stacked on a label nobody has, resolution neither
\* loops forever nor returns a list that lacks the controller.
C3_OrphanIsConfigurationError ==
    HasOrphan =>
        /\ ~Diverges
        /\ ResolutionReturned => Registered \subseteq SeqToSet(controllers)

\* C4: with controllers on a stacked_on cycle, resolution returns no order
\* that contains them, no loop runs forever and parsing is never reached.
C4_CycleIsConfigurationError ==
    CyclicSetup =>
        /\ ~(ResolutionReturned /\ OnCycle \cap SeqToSet(controllers) # {})
        /\ ~Diverges
        /\ ~ParsersDiverge
        /\ pc \notin {"parsing", "routing", "invoked"}

\* ------------------------------------------------------------ dispatch
\* the parse has succeeded (routing is about to run or has run)
ParseSucceeded == pc \in {"routing", "invoked", "route_failed"}

\* dispatch is over after a successful parse
AfterRouting == pc \in {"invoked", "route_failed"}

\* the exposed function of controller class l whose command label is lbl
BoundFunc(l, lbl) ==
    CHOOSE f \in {Catalog(l)[i] : i \in 1..Len(Catalog(l))} : MetaDict(f).label = lbl

\* the call of the function bound to the command sub-parser p, made by its marker
BoundCall(p) ==
    [controller |-> parser_objs[p].owner,
     func |-> BoundFunc(parser_objs[p].owner, parser_objs[p].name)[2],
     by |-> "marker"]

DefaultCall(l) == [controller |-> l, func |-> DefaultFunc, by |-> "routing"]

CommandMatched == cur_parser # 0 /\ parser_objs[cur_parser].kind = "command"

\* C5: once a dispatch whose parse succeeded is over, exactly one function has
\* been invoked: the matched command's bound function, by the marker, when a
\* command sub-parser was matched, and one default function, by routing,
\* otherwise.
C5_ExactlyOneHandler ==
    AfterRouting =>
        /\ Len(invoked) = 1
        /\ CommandMatched => invoked[1] = BoundCall(cur_parser)
        /\ ~CommandMatched =>
              invoked[1].by = "routing" /\ invoked[1].func = DefaultFunc

\* C6: a dispatch whose parse left the command field empty and evaluated no
\* marker ends invoked, having called the root controller's default function
\* once and nothing else.
C6_BareInvocationRunsRootDefault ==
    (AfterRouting /\ pargs.command = None /\ ~pargs.has_marker) =>
        pc = "invoked" /\ invoked = <<DefaultCall(BaseLabel)>>

C6_Witness ==
    /\ pc = "invoked"
    /\ pargs.command = None
    /\ ~pargs.has_marker
    /\ Len(handlers) >= 2
    /\ invoked = <<DefaultCall(BaseLabel)>>

\* C7: a dispatch whose parse stopped at a sub-parser that is no command's
\* calls the default function of the controller registered under the parsed
\* command value once, and nothing else; when no controller is registered
\* under that value it ends failed with nothing invoked.
C7_NestedLabelRunsItsDefault ==
    (AfterRouting /\ pargs.command # None /\ ~pargs.has_marker) =>
        IF HandlerDefined(pargs.command)
        THEN /\ pc = "invoked"
             /\ invoked = <<DefaultCall(pargs.command)>>
             /\ pargs.command # BaseLabel
             /\ pargs.command = parser_objs[cur_parser].owner
        ELSE pc = "route_failed" /\ invoked = <<>>

C7_Witness ==
    /\ pc = "invoked"
    /\ ~pargs.has_marker
    /\ pargs.command \in Registered
    /\ MetaOf(pargs.command).stacked_type = "nested"
    /\ invoked = <<DefaultCall(pargs.command)>>

\* --------------------------------------------------------- parser assembly
\* _setup_parsers has returned
ParsersAssembled ==
    pc \in {"process", "parsing", "routing", "invoked", "route_failed",
            "parse_failed"}

\* the loop of lines 573-575 has run for every controller
CommandsProcessed ==
    pc \in {"parsing", "routing", "invoked", "route_failed", "parse_failed"}

\* the groups whose name map holds parser p
GroupsOf(p) ==
    {g \in 1..Len(groups) :
        \E i \in 1..Len(groups[g].names) : groups[g].names[i][2] = p}

\* C8: after parser assembly every embedded controller has the parser and the
\* group of the controller it is stacked on, the only parsers made are those of
\* the nested controllers, and the commands of an embedded controller are in
\* the group of the controller it is stacked on and in no other.
C8_EmbeddedSharesParentParser ==
    ParsersAssembled =>
        /\ \A l \in Registered :
              MetaOf(l).stacked_type = "embedded" =>
                /\ sub_parsers[l] = sub_parsers[MetaOf(l).stacked_on]
                /\ sub_parser_parents[l] = sub_parser_parents[MetaOf(l).stacked_on]
        /\ Cardinality({p \in 1..Len(parser_objs) : parser_objs[p].kind = "controller"})
             = Cardinality({l \in Registered : MetaOf(l).stacked_type = "nested"})
        /\ CommandsProcessed =>
              \A p \in 1..Len(parser_objs) :
                 LET o == parser_objs[p].owner IN
                 (parser_objs[p].kind = "command" /\ o \in Registered
                    /\ MetaOf(o).stacked_type = "embedded") =>
                      GroupsOf(p) = {sub_parser_parents[MetaOf(o).stacked_on]}

\* an embedded controller stacked on a nested one: its commands are in the
\* nested controller's own group, which is not the root's
C8_Witness ==
    /\ CommandsProcessed
    /\ \E l \in Registered :
          /\ MetaOf(l).stacked_type = "embedded"
          /\ MetaOf(l).stacked_on \in Registered
          /\ MetaOf(MetaOf(l).stacked_on).stacked_type = "nested"
          /\ sub_parsers[l] = sub_parsers[MetaOf(l).stacked_on]
          /\ sub_parser_parents[l] # sub_parser_parents[BaseLabel]
          /\ groups[sub_parser_parents[l]].parser = sub_parsers[MetaOf(l).stacked_on]
          /\ \E p \in 1..Len(parser_objs) :
                /\ parser_objs[p].kind = "command"
                /\ parser_objs[p].owner = l
                /\ GroupsOf(p) = {sub_parser_parents[MetaOf(l).stacked_on]}

\* ------------------------------------------------- command parser options
\* C9: the options _get_command_parser_options returns lack the command's
\* help text exactly when the command is hidden or its controller is embedded
\* and hidden; every other option is returned as given.
C9_HelpOmittedWhenHidden ==
    opt_kwargs # <<>> =>
        LET given == opt_command.parser_options
            got == opt_kwargs[1]
            hidden == \/ opt_command.hide
                      \/ /\ opt_command.controller.stacked_type = "embedded"
                         /\ opt_command.controller.hide
        IN /\ "help" \in DOMAIN given =>
                 ("help" \notin DOMAIN got <=> hidden)
           /\ DOMAIN got \subseteq DOMAIN given
           /\ DOMAIN given \ {"help"} \subseteq DOMAIN got
           /\ \A k \in DOMAIN got : got[k] = given[k]

\* a command with hide = false and a help text, owned by a hidden embedded
\* controller: the help is gone
C9_Witness ==
    /\ opt_kwargs # <<>>
    /\ ~opt_command.hide
    /\ opt_command.controller.stacked_type = "embedded"
    /\ opt_command.controller.hide
    /\ "help" \in DOMAIN opt_command.parser_options
    /\ "description" \in DOMAIN opt_kwargs[1]
    /\ "help" \notin DOMAIN opt_kwargs[1]

\* ------------------------------------------------------- the hook registry
\* the register calls that target hook `name`, in the order they were made
RECURSIVE CallsFor(_, _)
CallsFor(calls, name) ==
    IF calls = <<>> THEN <<>>
    ELSE IF (IF "name" \in DOMAIN Head(calls).kw THEN Head(calls).kw.name
             ELSE Head(calls).func) = name
         THEN <<Head(calls)>> \o CallsFor(Tail(calls), name)
         ELSE CallsFor(Tail(calls), name)

\* the weight a register call counts with: 0 when it gave none
CallWeight(c) == IF "weight" \in DOMAIN c.kw THEN c.kw.weight ELSE 0

\* C10: a run of a defined hook yields one result per register call that
\* targets it, by ascending weight, calls of equal weight in the order they
\* were made, a call without a weight counting as weight 0; calls with weights
\* 99, -1 and none, made in that order, yield the second, the third, the first.
C10_RunYieldsByWeight ==
    (hook_out.op = "run" /\ hook_out.name \in hook_defined) =>
        LET calls == CallsFor(hook_calls, hook_out.name)
            rs == hook_out.results
            Call(id) == CHOOSE c \in SeqToSet(calls) : c.id = id
        IN /\ hook_out.status = "ok"
           /\ Len(rs) = Len(calls)
           /\ SeqToSet(rs) = {calls[i].id : i \in 1..Len(calls)}
           /\ \A i, j \in 1..Len(rs) :
                 i < j =>
                    \/ CallWeight(Call(rs[i])) < CallWeight(Call(rs[j]))
                    \/ /\ CallWeight(Call(rs[i])) = CallWeight(Call(rs[j]))
                       /\ rs[i] < rs[j]
           /\ (/\ Len(calls) = 3
               /\ "weight" \in DOMAIN calls[1].kw /\ calls[1].kw.weight = 99
               /\ "weight" \in DOMAIN calls[2].kw /\ calls[2].kw.weight = -1
               /\ "weight" \notin DOMAIN calls[3].kw)
                 => rs = <<calls[2].id, calls[3].id, calls[1].id>>

\* test_run: cement_test_hook defined, subscribers registered with weight 99,
\* weight -1 and, by the callable's name, no weight; the run yields 2, 3, 1
C10_Witness ==
    /\ hook_out.op = "run"
    /\ hook_out.name = "cement_test_hook"
    /\ "cement_test_hook" \in hook_defined
    /\ hook_calls = << [kw |-> [name |-> "cement_test_hook", weight |-> 99],
                        func |-> "cement_hook_one", id |-> 1],
                       [kw |-> [name |-> "cement_test_hook", weight |-> -1],
                        func |-> "cement_hook_one", id |-> 2],
                       [kw |-> [k \in {} |-> 0], func |-> "cement_test_hook",
                        id |-> 3] >>
    /\ hook_out.results = <<2, 3, 1>>

\* C11: a define of a name that is already defined ends in an error that
\* names the hook, and leaves the defined names and every subscriber list as
\* they were.
C11_DefineAgainFails ==
    [][(hook_out'.op = "define" /\ hook_out'.name \in hook_defined) =>
          /\ hook_out'.status = "error"
          /\ hooks' = hooks
          /\ hook_defined' = hook_defined]_vars

\* test_define_again, with subscribers already on the list
C11_Witness ==
    /\ hook_out.op = "define"
    /\ hook_out.name = "cement_test_hook"
    /\ hook_out.status = "error"
    /\ "cement_test_hook" \in hook_defined
    /\ Len(hooks["cement_test_hook"]) >= 2

\* C12: a run of a name that was never defined is an error and yields no
\* subscriber's result, also when register calls have named that hook.
C12_RunUndefinedFails ==
    (hook_out.op = "run" /\ hook_out.name \notin hook_defined) =>
        hook_out.status = "error" /\ hook_out.results = <<>>

\* test_run_bad_hook: some_bogus_hook was registered on, never defined
C12_Witness ==
    /\ hook_out.op = "run"
    /\ hook_out.name = "some_bogus_hook"
    /\ hook_out.status = "error"
    /\ "some_bogus_hook" \notin hook_defined
    /\ \E i \in 1..Len(hook_calls) :
          /\ "name" \in DOMAIN hook_calls[i].kw
          /\ hook_calls[i].kw.name = "some_bogus_hook"
          /\ "weight" \in DOMAIN hook_calls[i].kw

\* the hook a register call targets
CallTarget(c) == IF "name" \in DOMAIN c.kw THEN c.kw.name ELSE c.func

\* C13: every register call succeeds and its callable is kept on the
\* subscriber list of the name it targets, whether or not that name was
\* defined when the call was made.
C13_RegisterBeforeDefine ==
    /\ hook_out.op = "register" => hook_out.status = "ok"
    /\ \A i \in 1..Len(hook_calls) :
          LET c == hook_calls[i] IN
          /\ CallTarget(c) \in DOMAIN hooks
          /\ \E k \in 1..Len(hooks[CallTarget(c)]) :
                hooks[CallTarget(c)][k] = [id |-> c.id, weight |-> CallWeight(c)]

\* a register call on a name nobody has defined, its callable on the list
C13_Witness ==
    /\ hook_out.op = "register"
    /\ hook_out.name \notin hook_defined
    /\ hook_out.name \in DOMAIN hooks
    /\ hooks[hook_out.name][Len(hooks[hook_out.name])].id = Len(hook_calls)

\* C14: the subscriber list of a defined name holds one entry for each
\* register call that targets the name (by the name given or, without one, by
\* the name of the callable), in the order of the calls, and nothing else.
C14_OneEntryPerRegisterCall ==
    \A name \in hook_defined :
        LET calls == CallsFor(hook_calls, name) IN
        /\ Len(hooks[name]) = Len(calls)
        /\ \A k \in 1..Len(calls) : hooks[name][k].id = calls[k].id

\* cement_test_hook defined, one call naming it, one call naming
\* some_bogus_hook, one call without a name on the callable cement_test_hook
C14_Witness ==
    /\ "cement_test_hook" \in hook_defined
    /\ Len(hook_calls) = 3
    /\ Len(hooks["cement_test_hook"]) = 2
    /\ \E i \in 1..3 : /\ "name" \in DOMAIN hook_calls[i].kw
                        /\ hook_calls[i].kw.name = "some_bogus_hook"
    /\ \E i \in 1..3 : /\ "name" \notin DOMAIN hook_calls[i].kw
                        /\ hook_calls[i].func = "cement_test_hook"

\* ------------------------------------------------- the resolution loop
\* C15: an iteration of the resolution loop that found no controller stacked
\* on the current parent, with unresolved controllers left, goes on with the
\* stacked_on label of the first unresolved controller as the current parent.
C15_AdvanceToStackedOn ==
    [][(pc = "advance" /\ current_children = <<>> /\ unresolved # <<>>) =>
          current_parent' = MetaOf(unresolved[1]).stacked_on]_vars

\* the place of x in the sequence s
Pos(s, x) == CHOOSE i \in 1..Len(s) : s[i] = x

\* in the batch the nested controllers come first, the latest discovered
\* first, then the embedded ones in the order of their discovery; rank gives
\* the order of discovery
BatchOrdered(batch, rank) ==
    \A i, j \in 1..Len(batch) :
        i < j =>
            LET ti == MetaOf(batch[i]).stacked_type
                tj == MetaOf(batch[j]).stacked_type
            IN /\ ~(ti = "embedded" /\ tj = "nested")
               /\ (ti = "embedded" /\ tj = "embedded") => rank[batch[i]] < rank[batch[j]]
               /\ (ti = "nested" /\ tj = "nested") => rank[batch[i]] > rank[batch[j]]

\* what a step has appended to the resolved list
Appended == SubSeq(resolved', Len(resolved) + 1, Len(resolved'))

\* the unresolved controllers stacked on the current parent, discovered in
\* the order of the unresolved list
ParentLayer == {l \in SeqToSet(unresolved) : MetaOf(l).stacked_on = current_parent}

\* the unresolved controllers stacked on the current children, discovered
\* child by child and, for one child, in the order of the unresolved list
ChildLayer ==
    {l \in SeqToSet(unresolved) : MetaOf(l).stacked_on \in SeqToSet(current_children)}

ChildRank ==
    [l \in ChildLayer |->
        Pos(current_children, MetaOf(l).stacked_on) * (Len(unresolved) + 1)
          + Pos(unresolved, l)]

\* the batch appended for the current parent
ParentBatchOrdered ==
    /\ resolved' = resolved \o Appended
    /\ SeqToSet(Appended) = ParentLayer
    /\ Len(Appended) = Cardinality(ParentLayer)
    /\ BatchOrdered(Appended, [l \in ParentLayer |-> Pos(unresolved, l)])

\* the batch appended for the current children
ChildBatchOrdered ==
    /\ resolved' = resolved \o Appended
    /\ SeqToSet(Appended) = ChildLayer
    /\ Len(Appended) = Cardinality(ChildLayer)
    /\ BatchOrdered(Appended, ChildRank)

\* C16: each batch appended to the resolved list holds the controllers of one
\* layer, once each, the nested ones before the embedded ones, the embedded
\* ones in discovery order and the nested ones in reverse discovery order.
C16_BatchOrder ==
    [][((pc = "resolve" /\ pc' = "children") => ParentBatchOrdered)
         /\ ((pc = "children" /\ pc' = "advance") => ChildBatchOrdered)]_vars

\* c1 nested, c2 embedded, c3 nested, c4 embedded, all stacked on base: the
\* batch is c3, c1, c2, c4
C16_Witness ==
    /\ pc = "children"
    /\ Len(handlers) = 4
    /\ \A i \in 1..4 :
          /\ handlers[i].stacked_on = BaseLabel
          /\ handlers[i].stacked_type = IF i \in {1, 3} THEN "nested" ELSE "embedded"
    /\ resolved = <<BaseLabel, LabelNames[3], LabelNames[1], LabelNames[2],
                    LabelNames[4]>>

\* ------------------------------------------------------ parser assembly
\* C17: parser assembly over the list resolution returned for a well-formed
\* set of controllers, the root's stacked_on being none or not, never stands
\* at a pass that assigns nothing while controllers are pending: it ends, or
\* fails, instead of running that pass again.
C17_ParserAssemblyTerminates == WellFormed => ~ParsersDiverge

\* ------------------------------------------- arguments and commands
\* the parser and the group the arguments and commands of controller l go to
ParserFor(l) == sub_parsers[ParserKey(MetaAll(l))]

GroupFor(l) == sub_parser_parents[ParserKey(MetaAll(l))]

\* the command sub-parsers made for the function f of controller l
CommandParsers(l, f) ==
    {q \in 1..Len(parser_objs) :
        /\ parser_objs[q].kind = "command"
        /\ parser_objs[q].owner = l
        /\ parser_objs[q].name = MetaDict(f).label}

\* the arguments and commands of controller l have been added
ControllerAdded(l) ==
    /\ SeqToSet(MetaAll(l).arguments) \subseteq SeqToSet(parser_objs[ParserFor(l)].flags)
    /\ \A k \in 1..Len(Catalog(l)) :
          LET f == Catalog(l)[k] IN
          /\ CommandParsers(l, f) # {}
          /\ \A q \in CommandParsers(l, f) :
                /\ GroupsOf(q) = {GroupFor(l)}
                /\ SeqToSet(CommandArguments(f)) \subseteq SeqToSet(parser_objs[q].flags)

\* C18: the parse has started only when resolution and parser assembly are
\* over and the arguments and commands of every controller of the resolved
\* list have been added; whenever a controller is about to be processed its
\* parser and its group exist, so no lookup fails.
C18_ParseAfterSetup ==
    /\ pc # "setup_failed"
    /\ (pc = "process" /\ proc_idx <= Len(controllers)) =>
          LET key == ParserKey(MetaAll(controllers[proc_idx]))
          IN key \in DOMAIN sub_parsers /\ key \in DOMAIN sub_parser_parents
    /\ CommandsProcessed =>
          /\ unresolved = <<>>
          /\ controllers = resolved
          /\ tmp_controllers = <<>>
          /\ proc_idx = Len(controllers) + 1
          /\ \A i \in 1..Len(controllers) : ControllerAdded(controllers[i])

\* the parse has started for a nested controller and an embedded one stacked
\* on it, both with arguments of their own
C18_Witness ==
    /\ pc = "parsing"
    /\ Len(controllers) = 3
    /\ \E l \in Registered :
          /\ MetaOf(l).stacked_type = "embedded"
          /\ MetaOf(l).stacked_on \in Registered
          /\ MetaOf(MetaOf(l).stacked_on).stacked_type = "nested"
          /\ MetaOf(MetaOf(l).stacked_on).arguments = <<>>
          /\ MetaOf(l).arguments = <<Flag>>
          /\ MetaOf(l).cmd_arguments = <<Flag>>
          /\ ControllerAdded(l)

\* the flags the controllers of the list cs ask parser p to declare
RECURSIVE Requested(_, _)
Requested(cs, p) ==
    IF cs = <<>> THEN <<>>
    ELSE (IF ParserFor(Head(cs)) = p THEN MetaAll(Head(cs)).arguments ELSE <<>>)
           \o Requested(Tail(cs), p)

\* the flags expose() gave the command whose sub-parser q is
RequestedOfCommand(q) ==
    CommandArguments(<<parser_objs[q].owner, _clean_command_func(parser_objs[q].name)>>)

C20_RejectedVectorInvokesNothing == pc = "parse_failed" => invoked = <<>>

\* ------------------------------------------------- inherited commands
\* the controllers of the resolved list whose catalog holds function object f
CatalogsWith(f) ==
    {l \in SeqToSet(controllers) :
        \E k \in 1..Len(Catalog(l)) : Catalog(l)[k] = f}

\* C21: when the command matched in a controller's namespace is a function
\* that two controllers have in their catalogs, the marker has called it on
\* that controller, never on another one.
C21_CommandRunsOnOwnController ==
    (CommandMatched /\ pargs.marker_called) =>
        LET o == parser_objs[cur_parser].owner
            f == BoundFunc(o, parser_objs[cur_parser].name)
        IN Cardinality(CatalogsWith(f)) >= 2 =>
              \A i \in 1..Len(invoked) :
                  invoked[i].by = "marker" => invoked[i].controller = o

\* ------------------------------------------------- resolution bookkeeping
\* no element occurs twice in the list s
NoRepeats(s) == Cardinality(SeqToSet(s)) = Len(s)

\* the loop of line 290 is running or has just been left
Resolving == pc \in {"resolve", "children", "advance"}

\* C22: at every step of controller resolution the root is the first element
\* of the resolved list, every registered controller is in exactly one of the
\* resolved and the unresolved list, and nothing occurs twice in the resolved
\* list; the list a terminating resolution returns holds the root and each
\* registered controller exactly once.
C22_ResolutionPartitions ==
    /\ Resolving =>
          /\ resolved # <<>> /\ resolved[1] = BaseLabel
          /\ NoRepeats(resolved) /\ NoRepeats(unresolved)
          /\ SeqToSet(resolved) \cap SeqToSet(unresolved) = {}
          /\ SeqToSet(resolved) \cup SeqToSet(unresolved)
                = Registered \cup {BaseLabel}
    /\ pc = "resolved" =>
          /\ controllers[1] = BaseLabel
          /\ NoRepeats(controllers)
          /\ SeqToSet(controllers) = Registered \cup {BaseLabel}

\* a resolution of three controllers, one of them stacked on another of them,
\* has returned
C22_Witness ==
    /\ pc = "resolved"
    /\ Len(handlers) >= 3
    /\ \E l \in Registered : MetaOf(l).stacked_on \in Registered \ {l}

\* ------------------------------------------------- labels and identifiers
\* label is the identifier f with each underscore replaced by a hyphen
HyphenatedFrom(label, f) ==
    /\ Len(label) = Len(f)
    /\ \A i \in 1..Len(f) : label[i] = (IF f[i] = "_" THEN "-" ELSE f[i])

\* the function objects in the catalogs of the controller classes
ExposedFunctions ==
    UNION {{Catalog(l)[k] : k \in 1..Len(Catalog(l))} :
              l \in Registered \cup {BaseLabel}}

\* the function getattr finds under `name` on an instance of class l
FuncOn(l, name) ==
    CHOOSE f \in {Catalog(l)[k] : k \in 1..Len(Catalog(l))} : f[2] = name

\* the marker's action of a matched command has run and its getattr has raised
LookupFailed ==
    /\ pc = "parse_failed"
    /\ CommandMatched
    /\ ~pargs.marker_called

\* C23: the label of every exposed function is its identifier with each
\* underscore replaced by a hyphen, and replacing each hyphen of the label by
\* an underscore gives the identifier back; so the marker's action of a matched
\* command finds a function under the name mapped back from the parsed label,
\* and it is the function that was exposed under that label.
C23_LookupFindsExposedFunction ==
    /\ \A f \in ExposedFunctions :
          /\ MetaDict(f).func_name = f[2]
          /\ HyphenatedFrom(MetaDict(f).label, f[2])
          /\ _clean_command_func(MetaDict(f).label) = f[2]
    /\ ~LookupFailed
    /\ (CommandMatched /\ pargs.marker_called) =>
          \A i \in 1..Len(invoked) :
              invoked[i].by = "marker" =>
                  FuncOn(invoked[i].controller, invoked[i].func)
                    = BoundFunc(parser_objs[cur_parser].owner,
                                parser_objs[cur_parser].name)

====
